---- MODULE Spec2Model ----
(***************************************************************************)
(* CatSeek 1-Bit (src/catseek_1bit.py): the two-state response engine      *)
(* CatSeek1BitModel, its GGUF-style binary export, and the CatSeekUI       *)
(* handlers that drive them (clear_chat, export_gguf, export_json).        *)
(*                                                                         *)
(* Text is a sequence of Unicode code points, a file a sequence of bytes   *)
(* (0..255).  Response strings are opaque: they are kept as ASCII strings, *)
(* a non-ASCII character of the source written as U+<code point>.          *)
(***************************************************************************)
EXTENDS Integers, Sequences, FiniteSets, TLC

VARIABLES
    bit_state,    \* CatSeek1BitModel.bit_state
    token_count,  \* CatSeek1BitModel.token_count
    weights,      \* CatSeek1BitModel.weights: ordered <<[name, values]>>
    responses,    \* CatSeek1BitModel.responses: mode -> pool of responses
    metadata,     \* the metadata table export_gguf serializes: <<[key, value]>>
    turns,        \* history: the texts passed to generate since the last reset
    ret,          \* the most recent call: [op, arg, val]
    file,         \* the export destination: NoFile or its bytes
    dialog        \* the message box the last UI handler showed

engine == <<bit_state, token_count, weights, responses>>
vars == <<bit_state, token_count, weights, responses, metadata, turns, ret,
          file, dialog>>

----------------------------------------------------------------------------
(* Bounds of the model *)

\* generate calls between two resets
MaxTurns == 2

\* I/O faults are injected into the first and the last MaxFault write calls
MaxFault == 4

\* entries of a metadata table handed to the writer
MaxMeta == 2

\* the writer is given every tensor of at most MaxShort elements
MaxShort == 2

\* forward_pass is given every sign sequence of at most MaxSeq elements, and
\* each of them after one full period of the embed tensor
MaxSeq == 3

----------------------------------------------------------------------------
(* Integer helpers *)

Min(a, b) == IF a < b THEN a ELSE b

RECURSIVE Pow2(_)
Pow2(n) == IF n = 0 THEN 1 ELSE 2 * Pow2(n - 1)

\* Python's a ^ b on non-negative integers
RECURSIVE Xor(_, _)
Xor(a, b) ==
    IF a = 0 /\ b = 0 THEN 0
    ELSE (IF (a % 2) # (b % 2) THEN 1 ELSE 0) + 2 * Xor(a \div 2, b \div 2)

\* Python's a | b on non-negative integers
RECURSIVE BitOr(_, _)
BitOr(a, b) ==
    IF a = 0 /\ b = 0 THEN 0
    ELSE (IF (a % 2) = 1 \/ (b % 2) = 1 THEN 1 ELSE 0)
         + 2 * BitOr(a \div 2, b \div 2)

\* Python's s[:n] for n >= 0
Slice(s, n) == SubSeq(s, 1, Min(n, Len(s)))

----------------------------------------------------------------------------
(* Text *)

\* the code points c with chr(c).isspace(), which str.split() separates on
Whitespace ==
    {9, 10, 11, 12, 13, 28, 29, 30, 31, 32, 133, 160, 5760, 8232, 8233,
     8239, 8287, 12288} \cup (8192 .. 8202)

\* str.split(): the maximal runs of non-whitespace, in order
RECURSIVE SplitFrom(_, _, _, _)
SplitFrom(s, i, cur, out) ==
    IF i > Len(s) THEN (IF cur = <<>> THEN out ELSE Append(out, cur))
    ELSE IF s[i] \in Whitespace
         THEN SplitFrom(s, i + 1, <<>>,
                        IF cur = <<>> THEN out ELSE Append(out, cur))
         ELSE SplitFrom(s, i + 1, Append(cur, s[i]), out)

Split(s) == SplitFrom(s, 1, <<>>, <<>>)

\* the texts handed to the engine
HI == <<104, 105>>                                          \* "hi"
GO == <<103, 111>>                                          \* "go"
SPACED == <<32, 233, 160, 104, 105, 9, 10, 103, 111, 32>>   \* " e'<NBSP>hi\t\ngo "
LONG == <<103, 111, 32, 104, 105, 32, 103, 111, 32, 104, 105>> \* "go hi go hi"

Texts == { <<>>, HI, GO, SPACED, LONG }

----------------------------------------------------------------------------
(* CatSeek1BitModel *)

W(name, values) == [name |-> name, values |-> values]

\* dict lookup weights[name] (the names of a dict are unique)
WeightsOf(ws, name) ==
    ws[CHOOSE i \in 1..Len(ws) : ws[i].name = name].values

EMBED == <<101, 109, 98, 101, 100>>    \* "embed"

InitWeights ==
    << W(EMBED, <<1, -1, 1, -1, 1, -1, 1, -1>>),
       W(<<97, 116, 116, 110>>, <<1, 1, -1, -1, 1, 1, -1, -1>>),     \* "attn"
       W(<<102, 102, 110>>, <<-1, 1, -1, 1, -1, 1, -1, 1>>),         \* "ffn"
       W(<<111, 117, 116>>, <<1, -1, -1, 1, 1, -1, -1, 1>>) >>       \* "out"

\* elements of each constructed tensor, and of a tensor decoded from its
\* packed byte
TENSOR_LEN == 8

InitResponses ==
    [m \in {0, 1} |->
        IF m = 0
        THEN << "Let me analyze that systematically. U+1F50D",
                "Breaking this down step by step... U+1F4CA",
                "Here's the logical approach: U+1F9E0",
                "Processing with precision. U+26A1",
                "Quantized inference complete. U+1F48E" >>
        ELSE << "Execute immediately. Let's ship it. U+1F680",
                "Clear path forward U+2014 taking action. U+26A1",
                "Optimized solution incoming. U+1F3AF",
                "1-bit precision, maximum efficiency. U+1F4AA",
                "Compressed wisdom, expanded results. U+1F31F" >>]

\* quantize_input with the test inverted: 1 for an even code point
quantize_input_EvenIsPlus(text) ==
    [k \in 1..Len(text) |-> IF (text[k] % 2) = 0 THEN 1 ELSE -1]

\* quantize_input: [1 if ord(c) % 2 else -1 for c in text]
quantize_input(text) ==
    [k \in 1..Len(text) |-> IF (text[k] % 2) # 0 THEN 1 ELSE -1]

\* forward_pass: the loop over enumerate(quantized_input), acc ^= (q*w+1)//2
RECURSIVE ForwardFrom(_, _, _, _)
ForwardFrom(ws, q, i, acc) ==
    IF i >= Len(q) THEN acc
    ELSE LET embed == WeightsOf(ws, EMBED)
             w == embed[(i % Len(embed)) + 1]
         IN ForwardFrom(ws, q, i + 1, Xor(acc, (q[i + 1] * w + 1) \div 2))

forward_pass(ws, quantized_input) == ForwardFrom(ws, quantized_input, 0, 0) % 2

\* generate with the state set instead of flipped (bit_state |= 1)
GenerateResult_NoFlip(user_input) ==
    LET count1 == token_count + Len(Split(user_input))
        q_input == quantize_input(user_input)
        pool == responses[bit_state]
        response == pool[(Len(user_input) % Len(pool)) + 1]
        state1 == BitOr(bit_state, 1)
    IN [token_count |-> count1,
        bit_state |-> state1,
        output_bit |-> forward_pass(weights, q_input),
        value |-> <<response, Xor(state1, 1), Slice(q_input, 8)>>]

\* generate returning the state after the flip (self.bit_state)
GenerateResult_ReturnsNewMode(user_input) ==
    LET count1 == token_count + Len(Split(user_input))
        q_input == quantize_input(user_input)
        pool == responses[bit_state]
        response == pool[(Len(user_input) % Len(pool)) + 1]
        state1 == Xor(bit_state, 1)
    IN [token_count |-> count1,
        bit_state |-> state1,
        output_bit |-> forward_pass(weights, q_input),
        value |-> <<response, state1, Slice(q_input, 8)>>]

\* generate counting characters (len(user_input)) instead of tokens
GenerateResult_CountsChars(user_input) ==
    LET count1 == token_count + Len(user_input)
        q_input == quantize_input(user_input)
        pool == responses[bit_state]
        response == pool[(Len(user_input) % Len(pool)) + 1]
        state1 == Xor(bit_state, 1)
    IN [token_count |-> count1,
        bit_state |-> state1,
        output_bit |-> forward_pass(weights, q_input),
        value |-> <<response, Xor(state1, 1), Slice(q_input, 8)>>]

\* generate selecting with the forward pass's bit added to the index
GenerateResult_UsesOutputBit(user_input) ==
    LET count1 == token_count + Len(Split(user_input))
        q_input == quantize_input(user_input)
        output_bit == forward_pass(weights, q_input)
        pool == responses[bit_state]
        response == pool[((Len(user_input) + output_bit) % Len(pool)) + 1]
        state1 == Xor(bit_state, 1)
    IN [token_count |-> count1,
        bit_state |-> state1,
        output_bit |-> output_bit,
        value |-> <<response, Xor(state1, 1), Slice(q_input, 8)>>]

\* generate's statements in order; the result holds the fields after the call
\* and the returned tuple (response, bit_state ^ 1, q_input[:8])
GenerateResult(user_input) ==
    LET count1 == token_count + Len(Split(user_input))
        q_input == quantize_input(user_input)
        output_bit == forward_pass(weights, q_input)
        pool == responses[bit_state]
        response == pool[(Len(user_input) % Len(pool)) + 1]
        state1 == Xor(bit_state, 1)
    IN [token_count |-> count1,
        bit_state |-> state1,
        output_bit |-> output_bit,
        value |-> <<response, Xor(state1, 1), Slice(q_input, 8)>>]

\* get_model_info: the snapshot dict
get_model_info ==
    [name |-> "CatSeek-1Bit", quantization |-> "1-bit (BitNet)",
     parameters |-> 32, size_mb |-> "0.000001", bit_state |-> bit_state,
     tokens_processed |-> token_count, context_length |-> 2048,
     vocab_size |-> 256]

Call(op, arg, val) == [op |-> op, arg |-> arg, val |-> val]

----------------------------------------------------------------------------
(* Bytes: str.encode('utf-8') and struct.pack *)

\* one code point as UTF-8 (no surrogates among the inputs)
Utf8Char(c) ==
    IF c < 128 THEN <<c>>
    ELSE IF c < 2048 THEN <<192 + (c \div 64), 128 + (c % 64)>>
    ELSE IF c < 65536
         THEN <<224 + (c \div 4096), 128 + ((c \div 64) % 64), 128 + (c % 64)>>
    ELSE <<240 + (c \div 262144), 128 + ((c \div 4096) % 64),
           128 + ((c \div 64) % 64), 128 + (c % 64)>>

RECURSIVE EncodeFrom(_, _)
EncodeFrom(s, i) ==
    IF i > Len(s) THEN <<>> ELSE Utf8Char(s[i]) \o EncodeFrom(s, i + 1)

\* s.encode('utf-8')
encode_utf8(s) == EncodeFrom(s, 1)

\* the low `width` bytes of n, least significant first (two's complement
\* for a negative n: \div rounds down and % is non-negative)
RECURSIVE LittleEndian(_, _)
LittleEndian(n, width) ==
    IF width = 0 THEN <<>>
    ELSE <<n % 256>> \o LittleEndian(n \div 256, width - 1)

pack_I(n) == LittleEndian(n, 4)    \* struct.pack('<I', n), 0 <= n < 2^32
pack_Q(n) == LittleEndian(n, 8)    \* struct.pack('<Q', n), 0 <= n < 2^64
pack_i(n) == LittleEndian(n, 4)    \* struct.pack('<i', n), -2^31 <= n < 2^31
pack_B(n) == <<n>>                 \* struct.pack('<B', n), 0 <= n <= 255

\* struct.pack('<B', n) raises struct.error outside 0..255
pack_B_raises(n) == n < 0 \/ n > 255

----------------------------------------------------------------------------
(* CatSeek1BitModel.export_gguf *)

MAGIC == <<71, 71, 85, 70>>    \* b'GGUF'
VERSION == 3
TYPE_INT32 == 4
TYPE_STRING == 8

\* a metadata value: isinstance(value, int), or a str
IntValue(n) == [kind |-> "int", int |-> n, str |-> <<>>]
StrValue(s) == [kind |-> "str", int |-> 0, str |-> s]
KV(key, value) == [key |-> key, value |-> value]

InitMetadata ==
    << \* "general.architecture": "catseek"
       KV(<<103, 101, 110, 101, 114, 97, 108, 46, 97, 114, 99, 104, 105, 116,
            101, 99, 116, 117, 114, 101>>,
          StrValue(<<99, 97, 116, 115, 101, 101, 107>>)),
       \* "general.name": "CatSeek-1Bit"
       KV(<<103, 101, 110, 101, 114, 97, 108, 46, 110, 97, 109, 101>>,
          StrValue(<<67, 97, 116, 83, 101, 101, 107, 45, 49, 66, 105, 116>>)),
       \* "general.quantization_version": 1
       KV(<<103, 101, 110, 101, 114, 97, 108, 46, 113, 117, 97, 110, 116, 105,
            122, 97, 116, 105, 111, 110, 95, 118, 101, 114, 115, 105, 111,
            110>>,
          IntValue(1)),
       \* "catseek.bits": 1
       KV(<<99, 97, 116, 115, 101, 101, 107, 46, 98, 105, 116, 115>>,
          IntValue(1)),
       \* "catseek.context_length": 2048
       KV(<<99, 97, 116, 115, 101, 101, 107, 46, 99, 111, 110, 116, 101, 120,
            116, 95, 108, 101, 110, 103, 116, 104>>,
          IntValue(2048)),
       \* "catseek.embedding_length": 8
       KV(<<99, 97, 116, 115, 101, 101, 107, 46, 101, 109, 98, 101, 100, 100,
            105, 110, 103, 95, 108, 101, 110, 103, 116, 104>>,
          IntValue(8)),
       \* "catseek.block_count": 1
       KV(<<99, 97, 116, 115, 101, 101, 107, 46, 98, 108, 111, 99, 107, 95, 99,
            111, 117, 110, 116>>,
          IntValue(1)),
       \* "catseek.attention.head_count": 1
       KV(<<99, 97, 116, 115, 101, 101, 107, 46, 97, 116, 116, 101, 110, 116,
            105, 111, 110, 46, 104, 101, 97, 100, 95, 99, 111, 117, 110, 116>>,
          IntValue(1)),
       \* "catseek.vocab_size": 256
       KV(<<99, 97, 116, 115, 101, 101, 107, 46, 118, 111, 99, 97, 98, 95, 115,
            105, 122, 101>>,
          IntValue(256)),
       \* "tokenizer.ggml.model": "gpt2"
       KV(<<116, 111, 107, 101, 110, 105, 122, 101, 114, 46, 103, 103, 109,
            108, 46, 109, 111, 100, 101, 108>>,
          StrValue(<<103, 112, 116, 50>>)),
       \* "quantization.type": "BitNet-1bit"
       KV(<<113, 117, 97, 110, 116, 105, 122, 97, 116, 105, 111, 110, 46, 116,
            121, 112, 101>>,
          StrValue(<<66, 105, 116, 78, 101, 116, 45, 49, 98, 105, 116>>)) >>

\* metadata entry written with len(key), the characters, as the key length
MetadataWrites_CharLength(entry) ==
    LET key_bytes == encode_utf8(entry.key)
    IN <<pack_Q(Len(entry.key)), key_bytes>> \o
       (IF entry.value.kind = "int"
        THEN <<pack_I(TYPE_INT32), pack_i(entry.value.int)>>
        ELSE LET val_bytes == encode_utf8(entry.value.str)
             IN <<pack_I(TYPE_STRING), pack_Q(Len(val_bytes)), val_bytes>>)

\* the f.write calls of one metadata entry, in order
MetadataWrites(entry) ==
    LET key_bytes == encode_utf8(entry.key)
    IN <<pack_Q(Len(key_bytes)), key_bytes>> \o
       (IF entry.value.kind = "int"
        THEN <<pack_I(TYPE_INT32), pack_i(entry.value.int)>>
        ELSE LET val_bytes == encode_utf8(entry.value.str)
             IN <<pack_I(TYPE_STRING), pack_Q(Len(val_bytes)), val_bytes>>)

\* the "pack bits" loop: packed |= (1 << i) for each w == 1 at index i (from 0)
RECURSIVE PackFrom(_, _, _)
PackFrom(values, i, packed) ==
    IF i >= Len(values) THEN packed
    ELSE PackFrom(values, i + 1,
                  IF values[i + 1] = 1 THEN BitOr(packed, Pow2(i)) ELSE packed)

\* the loop packing the first element into the highest bit
PackBits_MsbFirst(values) ==
    LET n == Len(values)
    IN PackFrom([k \in 1..n |-> values[n + 1 - k]], 0, 0)

PackBits(values) == PackFrom(values, 0, 0)

\* the f.write calls of the tensors from index i on; raises: struct.pack('<B')
\* failed on a tensor, after the calls listed
RECURSIVE TensorWritesFrom(_, _)
TensorWritesFrom(ws, i) ==
    IF i > Len(ws) THEN [calls |-> <<>>, raises |-> FALSE]
    ELSE LET name_bytes == encode_utf8(ws[i].name)
             packed == PackBits(ws[i].values)
             head == <<pack_Q(Len(name_bytes)), name_bytes>>
         IN IF pack_B_raises(packed)
            THEN [calls |-> head, raises |-> TRUE]
            ELSE LET rest == TensorWritesFrom(ws, i + 1)
                 IN [calls |-> head \o <<pack_B(packed)>> \o rest.calls,
                     raises |-> rest.raises]

RECURSIVE MetadataWritesFrom(_, _)
MetadataWritesFrom(md, i) ==
    IF i > Len(md) THEN <<>>
    ELSE MetadataWrites(md[i]) \o MetadataWritesFrom(md, i + 1)

\* the body of `with open(filepath, 'wb') as f`: every f.write call in order
WritePlan(md, ws) ==
    LET tensors == TensorWritesFrom(ws, 1)
    IN [calls |-> <<MAGIC, pack_I(VERSION), pack_Q(Len(ws)), pack_Q(Len(md))>>
                  \o MetadataWritesFrom(md, 1) \o tensors.calls,
        raises |-> tensors.raises]

\* the bytes of the first k write calls
RECURSIVE Written(_, _)
Written(calls, k) ==
    IF k = 0 THEN <<>> ELSE Written(calls, k - 1) \o calls[k]

NoFile == [exists |-> FALSE, open |-> FALSE, bytes |-> <<>>]
ClosedFile(bytes) == [exists |-> TRUE, open |-> FALSE, bytes |-> bytes]

ExportResult(raised, size, ntensors, nkeys) ==
    [raised |-> raised, size_bytes |-> size, tensors |-> ntensors,
     metadata_keys |-> nkeys]

\* export_gguf with the write loop in try/except: pass, so that a failed
\* write is followed by the statistics of what is on disk
export_gguf_SwallowsErrors(plan, md, ws, before, fault) ==
    LET n == Len(plan.calls)
    IN IF fault = -1
       THEN [file |-> before, result |-> ExportResult("OSError", 0, 0, 0)]
       ELSE LET k == IF fault \in 0..(n - 1) THEN fault ELSE n
                bytes == Written(plan.calls, k)
            IN [file |-> ClosedFile(bytes),
                result |-> ExportResult("", Len(bytes), Len(ws), Len(md))]

\* export_gguf(filepath) when the environment fails the call numbered `fault`:
\* -1 is open(), k >= 0 the f.write call after k successful ones; any other
\* number is no I/O fault.  plan is WritePlan(md, ws).  The with statement
\* closes f on every exit.
export_gguf(plan, md, ws, before, fault) ==
    LET n == Len(plan.calls)
    IN IF fault = -1
       THEN [file |-> before, result |-> ExportResult("OSError", 0, 0, 0)]
       ELSE IF fault \in 0..(n - 1)
       THEN [file |-> ClosedFile(Written(plan.calls, fault)),
             result |-> ExportResult("OSError", 0, 0, 0)]
       ELSE IF plan.raises
       THEN [file |-> ClosedFile(Written(plan.calls, n)),
             result |-> ExportResult("struct.error", 0, 0, 0)]
       ELSE LET bytes == Written(plan.calls, n)
            IN [file |-> ClosedFile(bytes),
                result |-> ExportResult("", Len(bytes), Len(ws), Len(md))]

----------------------------------------------------------------------------
(* Operations *)

\* generate taking the response out of its pool (pool.pop(...))
Generate_ConsumesResponse(user_input) ==
    /\ Len(turns) < MaxTurns
    /\ LET r == GenerateResult(user_input)
           pool == responses[bit_state]
           at == (Len(user_input) % Len(pool)) + 1
       IN /\ token_count' = r.token_count
          /\ bit_state' = r.bit_state
          /\ ret' = Call("generate", user_input, r.value)
          /\ responses' = [responses EXCEPT ![bit_state] =
                             SubSeq(pool, 1, at - 1) \o
                             SubSeq(pool, at + 1, Len(pool))]
    /\ turns' = Append(turns, user_input)
    /\ UNCHANGED <<weights, metadata, file, dialog>>

\* model.generate(user_input), as send_message calls it
Generate(user_input) ==
    /\ Len(turns) < MaxTurns
    /\ LET r == GenerateResult(user_input)
       IN /\ token_count' = r.token_count
          /\ bit_state' = r.bit_state
          /\ ret' = Call("generate", user_input, r.value)
    /\ turns' = Append(turns, user_input)
    /\ UNCHANGED <<weights, responses, metadata, file, dialog>>

\* model.quantize_input(text), as send_message calls it for the preview
QuantizeInput(text) ==
    /\ ret' = Call("quantize_input", text, quantize_input(text))
    /\ UNCHANGED <<engine, metadata, turns, file, dialog>>

\* model.forward_pass(quantized_input), called on the engine directly
ForwardPass(quantized_input) ==
    /\ ret' = Call("forward_pass", quantized_input,
                   forward_pass(weights, quantized_input))
    /\ UNCHANGED <<engine, metadata, turns, file, dialog>>

\* model.get_model_info()
GetModelInfo ==
    /\ ret' = Call("get_model_info", <<>>, get_model_info)
    /\ UNCHANGED <<engine, metadata, turns, file, dialog>>

\* clear_chat resetting the state but not the token counter
ClearChat_KeepsTokens ==
    /\ bit_state' = 0
    /\ turns' = <<>>
    /\ ret' = Call("clear_chat", <<>>, <<>>)
    /\ UNCHANGED <<token_count, weights, responses, metadata, file, dialog>>

\* clear_chat resetting the token counter but not the state
ClearChat_KeepsMode ==
    /\ token_count' = 0
    /\ turns' = <<>>
    /\ ret' = Call("clear_chat", <<>>, <<>>)
    /\ UNCHANGED <<bit_state, weights, responses, metadata, file, dialog>>

\* CatSeekUI.clear_chat: the reset ("new chat")
ClearChat ==
    /\ bit_state' = 0
    /\ token_count' = 0
    /\ turns' = <<>>
    /\ ret' = Call("clear_chat", <<>>, <<>>)
    /\ UNCHANGED <<weights, responses, metadata, file, dialog>>

\* the calls of an export the environment may fail: open() (-1), one of the
\* first or last MaxFault of the n write calls, or none (n)
Faults(n) ==
    {-1, n} \cup {k \in 0..(n - 1) : k < MaxFault \/ k >= n - MaxFault}

\* export_gguf packing the weights in place: each -1 stored back as 0
ExportGguf_PacksInPlace ==
    \E plan \in {WritePlan(metadata, weights)} :
      \E fault \in Faults(Len(plan.calls)) :
        LET out == export_gguf(plan, metadata, weights, file, fault)
        IN /\ file' = out.file
           /\ ret' = Call("export_gguf", fault, out.result)
           /\ dialog' = IF out.result.raised = "" THEN "showinfo"
                                                  ELSE "showerror"
           /\ weights' = [i \in 1..Len(weights) |->
                            W(weights[i].name,
                              [k \in 1..Len(weights[i].values) |->
                                 IF weights[i].values[k] = 1 THEN 1 ELSE 0])]
           /\ UNCHANGED <<bit_state, token_count, responses, metadata, turns>>

\* CatSeekUI.export_gguf with a path chosen: model.export_gguf(filepath) in
\* try/except, then showinfo or showerror
ExportGguf ==
    \E plan \in {WritePlan(metadata, weights)} :
      \E fault \in Faults(Len(plan.calls)) :
        LET out == export_gguf(plan, metadata, weights, file, fault)
        IN /\ file' = out.file
           /\ ret' = Call("export_gguf", fault, out.result)
           /\ dialog' = IF out.result.raised = "" THEN "showinfo"
                                                  ELSE "showerror"
           /\ UNCHANGED <<engine, metadata, turns>>

\* the config dict export_json dumps (exported_at, the wall clock, left out)
JsonConfig ==
    [model |-> get_model_info, weights |-> weights, responses |-> responses,
     format_version |-> "1.0"]

\* CatSeekUI.export_json with a path chosen; the JSON file is a destination of
\* its own and is not kept in the state: the document is the call's value
ExportJson ==
    \E ok \in BOOLEAN :
        /\ ret' = Call("export_json", <<>>,
                       [raised |-> IF ok THEN "" ELSE "OSError",
                        config |-> JsonConfig])
        /\ dialog' = IF ok THEN "showinfo" ELSE "showerror"
        /\ UNCHANGED <<engine, metadata, turns, file>>

----------------------------------------------------------------------------
(* The session: one engine, driven by the UI *)

Init ==
    /\ bit_state = 0
    /\ token_count = 0
    /\ weights = InitWeights
    /\ responses = InitResponses
    /\ metadata = InitMetadata
    /\ turns = <<>>
    /\ ret = Call("__init__", <<>>, <<>>)
    /\ file = NoFile
    /\ dialog = "none"

Next ==
    \/ \E t \in Texts : Generate(t)
    \/ \E t \in Texts : QuantizeInput(t)
    \/ GetModelInfo
    \/ ClearChat
    \/ ExportGguf
    \/ ExportJson

Spec == Init /\ [][Next]_vars

----------------------------------------------------------------------------
(* The engine on its own: generate and forward_pass called directly, with   *)
(* resets in between                                                        *)

\* the sign sequences handed to forward_pass: the short ones, the same after
\* the 8 values of embed (so that i % len(embed) wraps), and the quantized
\* texts
SignInputs ==
    LET short == UNION {[1..n -> {1, -1}] : n \in 0..MaxSeq}
    IN short
       \cup {WeightsOf(InitWeights, EMBED) \o q : q \in short}
       \cup {quantize_input(t) : t \in Texts}

ForwardNext ==
    \/ \E t \in Texts : Generate(t)
    \/ \E q \in SignInputs : ForwardPass(q)
    \/ ClearChat

ForwardSpec == Init /\ [][ForwardNext]_vars

----------------------------------------------------------------------------
(* Properties of the session, under Spec *)

Range(q) == {q[i] : i \in 1..Len(q)}

\* C1: the mode is 0 or 1 in every reachable state and every generate call
\* changes it to its complement; counted from a reset (or construction, mode
\* 0) the mode is the parity of the number of calls: 0 -> 1 -> 0.
C1_ModeAlternates ==
    /\ [](bit_state \in {0, 1} /\ bit_state = Len(turns) % 2)
    /\ [][ret'.op = "generate" => bit_state' = 1 - bit_state]_vars

\* two generate calls after mode 0: the mode is 0 again
C1_Witness ==
    ret.op = "generate" /\ Len(turns) = 2 /\ bit_state = 0

RECURSIVE SumTokens(_)
SumTokens(ts) ==
    IF ts = <<>> THEN 0 ELSE Len(Split(Head(ts))) + SumTokens(Tail(ts))

\* C2: the token counter is the sum of the whitespace-split token counts of
\* the texts passed to generate since the most recent reset (or since
\* construction), and no step but a reset decreases it.
C2_TokenCounter ==
    /\ [](token_count = SumTokens(turns))
    /\ [][ret'.op # "clear_chat" => token_count' >= token_count]_vars

\* two turns of 3 and 4 tokens
C2_Witness ==
    turns = <<SPACED, LONG>> /\ token_count = 7

\* C3: generate(text) in mode m returns the response at index
\* len(text) mod poolSize of the pool of m, m itself as the mode, and the
\* first min(8, len(text)) elements of quantize_input(text); the pool is not
\* empty, so the index is defined for every text, the empty one included.
C3_GenerateReturns ==
    [][ret'.op = "generate" =>
        LET t == ret'.arg
            pool == responses[bit_state]
            q == quantize_input(t)
        IN /\ Len(pool) > 0
           /\ ret'.val[1] = pool[(Len(t) % Len(pool)) + 1]
           /\ ret'.val[2] = bit_state
           /\ ret'.val[3] = [k \in 1..Min(8, Len(t)) |-> q[k]]]_vars

\* generate("") in mode 1
C3_Witness ==
    /\ ret.op = "generate" /\ ret.arg = <<>>
    /\ ret.val = <<responses[1][1], 1, <<>>>>

\* C4, as amended: from a fresh engine generate("hi") selects with mode 0, the
\* token counter becomes 1 and the returned mode is 0; a following
\* generate("go") selects with mode 1, the counter becomes 2 and the returned
\* mode is 1.
C4_Scenario ==
    /\ (ret.op = "generate" /\ turns = <<HI>>) =>
          /\ ret.val[1] = InitResponses[0][3]
          /\ token_count = 1
          /\ ret.val[2] = 0
    /\ (ret.op = "generate" /\ turns = <<HI, GO>>) =>
          /\ ret.val[1] = InitResponses[1][3]
          /\ token_count = 2
          /\ ret.val[2] = 1

\* C4 as stated: the counter becomes 2 and the returned mode is 1, then 4 and 0
C4_AsStated ==
    /\ (ret.op = "generate" /\ turns = <<HI>>) =>
          /\ ret.val[1] \in Range(InitResponses[0])
          /\ token_count = 2
          /\ ret.val[2] = 1
    /\ (ret.op = "generate" /\ turns = <<HI, GO>>) =>
          /\ ret.val[1] \in Range(InitResponses[1])
          /\ token_count = 4
          /\ ret.val[2] = 0

\* generate("hi") then generate("go")
C4_Witness ==
    ret.op = "generate" /\ turns = <<HI, GO>> /\ ret.arg = GO

\* C5: an export, binary or JSON, succeeding or failing, leaves the mode, the
\* token counter, the four weight tensors and the response pools as they were.
C5_ExportFrame ==
    [][ret'.op \in {"export_gguf", "export_json"} =>
        /\ bit_state' = bit_state
        /\ token_count' = token_count
        /\ weights' = weights
        /\ responses' = responses]_vars

\* a failed binary export in mode 1 with tokens counted
C5_Witness ==
    /\ ret.op = "export_gguf" /\ ret.val.raised = "OSError"
    /\ bit_state = 1 /\ token_count > 0

\* C10: quantize_input(t) has the length of t, element k is +1 if the code
\* point of character k is odd and -1 otherwise (so the result is decided by
\* t alone, whatever the engine state), and the call changes no engine state.
C10_QuantizeInput ==
    /\ [](ret.op = "quantize_input" =>
            /\ Len(ret.val) = Len(ret.arg)
            /\ \A k \in 1..Len(ret.arg) :
                  ret.val[k] = IF ret.arg[k] % 2 = 1 THEN 1 ELSE -1)
    /\ [][ret'.op = "quantize_input" => UNCHANGED engine]_vars

\* a text of odd and even code points quantized after some turns
C10_Witness ==
    /\ ret.op = "quantize_input" /\ ret.arg = SPACED
    /\ ret.val = <<-1, 1, -1, -1, 1, 1, -1, 1, 1, -1>>
    /\ token_count > 0

\* C11: the mode and the token counter are the only engine fields that change:
\* in every reachable state, whatever generate, reset, get_model_info and
\* export calls came before, the weights are the four tensors embed, attn, ffn
\* and out with their constructed values, each of 8 elements of {+1,-1}, and
\* the response pools are the constructed ones.
C11_ConstantTables ==
    /\ weights = InitWeights
    /\ [i \in 1..Len(weights) |-> weights[i].name] =
          << EMBED, <<97, 116, 116, 110>>, <<102, 102, 110>>,
             <<111, 117, 116>> >>
    /\ \A i \in 1..Len(weights) :
          /\ Len(weights[i].values) = TENSOR_LEN
          /\ Range(weights[i].values) \subseteq {1, -1}
    /\ responses = InitResponses

\* a snapshot taken in mode 1, one turn after the last reset, with a file
\* exported
C11_Witness ==
    /\ ret.op = "get_model_info"
    /\ Len(turns) = 1 /\ bit_state = 1 /\ token_count > 0
    /\ file.exists

\* what get_model_info returns on a freshly constructed engine
FreshInfo ==
    [name |-> "CatSeek-1Bit", quantization |-> "1-bit (BitNet)",
     parameters |-> 32, size_mb |-> "0.000001", bit_state |-> 0,
     tokens_processed |-> 0, context_length |-> 2048, vocab_size |-> 256]

\* C13: a reset, from any reachable state, sets the mode to 0 and the token
\* counter to 0 and leaves the weights and the response pools as they were;
\* the first generate after it returns a response of the mode 0 (Analytical)
\* pool and mode 0, and until then get_model_info returns what it returns on
\* a freshly constructed engine.
C13_Reset ==
    /\ [][ret'.op = "clear_chat" =>
            /\ bit_state' = 0
            /\ token_count' = 0
            /\ weights' = weights
            /\ responses' = responses]_vars
    /\ [][(ret'.op = "generate" /\ turns = <<>>) =>
            /\ ret'.val[1] \in Range(InitResponses[0])
            /\ ret'.val[2] = 0]_vars
    /\ []((ret.op = "get_model_info" /\ turns = <<>>) => ret.val = FreshInfo)

\* a reset with a file exported before it
C13_Witness ==
    /\ ret.op = "clear_chat"
    /\ bit_state = 0 /\ token_count = 0 /\ turns = <<>>
    /\ file.exists

----------------------------------------------------------------------------
(* Properties of the engine, under ForwardSpec *)

\* parity of the number of positions (counted from 0) at which q agrees with
\* the alternating pattern +1, -1, +1, ... that embed repeats
Agreements(q) ==
    Cardinality({k \in 1..Len(q) : q[k] = IF k % 2 = 1 THEN 1 ELSE -1}) % 2

\* text t with the code point at position k replaced by its successor: the
\* same length, the opposite parity at k
Flip(t, k) == [t EXCEPT ![k] = t[k] + 1]

\* texts of the length of t that generate may be given instead of t
SameLength(t) ==
    {u \in Texts : Len(u) = Len(t)} \cup {Flip(t, k) : k \in 1..Len(t)}

\* C12: for every sequence q of values of {+1,-1}, the empty one included,
\* forward_pass(q) is 0 or 1 and is decided by q alone (the parity of its
\* agreements with embed), whatever the mode and the token counter are; and
\* the bit generate computes influences neither the response it selects nor
\* the next mode: a text of the same length whose bit is the opposite one
\* gets the same response and the same next mode.
C12_ForwardPass ==
    /\ [](ret.op = "forward_pass" =>
            /\ ret.val \in {0, 1}
            /\ ret.val = Agreements(ret.arg))
    /\ [][ret'.op = "generate" =>
            \A u \in SameLength(ret'.arg) :
               GenerateResult(u).output_bit #
                     GenerateResult(ret'.arg).output_bit =>
                  /\ GenerateResult(u).value[1] = ret'.val[1]
                  /\ GenerateResult(u).bit_state = bit_state']_vars

\* after generate("go"), whose bit is 1, forward_pass on the quantized "hi"
\* returns 0 in mode 1 with a token counted
C12_Witness ==
    /\ ret.op = "forward_pass" /\ ret.arg = quantize_input(HI) /\ ret.val = 0
    /\ turns = <<GO>> /\ bit_state = 1 /\ token_count = 1
    /\ forward_pass(weights, quantize_input(GO)) = 1

----------------------------------------------------------------------------
(* The writer on its own: export_gguf over metadata tables and tensor sets  *)
(* drawn from bounded sets                                                  *)

SignVectors(n) == [1..n -> {1, -1}]

Names == { <<119>>, <<233, 49>>, <<>> }        \* "w", "e'1", ""
Keys == { <<107>>, <<8364, 107>>, <<>> }       \* "k", "<euro>k", ""

Values ==
    { IntValue(-1), IntValue(2048), IntValue(-2147483647 - 1),
      StrValue(<<>>), StrValue(<<233, 8364, 128269>>) }

\* the sequences of 1..n elements of S with pairwise different kf[.]
RECURSIVE UniqueSeqs(_, _, _)
UniqueSeqs(S, n, kf) ==
    IF n = 0 THEN {}
    ELSE LET shorter == UniqueSeqs(S, n - 1, kf)
         IN {<<x>> : x \in S} \cup
            UNION {{Append(q, x) :
                      x \in {y \in S : \A i \in 1..Len(q) : kf[q[i]] # kf[y]}} :
                   q \in shorter}

MetaEntries == {KV(k, v) : k \in Keys, v \in Values}

\* the metadata tables: dicts of 1..MaxMeta entries
MetaInputs ==
    UniqueSeqs(MetaEntries, MaxMeta, [e \in MetaEntries |-> e.key])

DefaultMeta == <<KV(<<107>>, IntValue(1))>>

ShortVectors == UNION {SignVectors(n) : n \in 0..MaxShort}

\* 9-element tensors: -1 everywhere but at some of the indexes 0, 7 and 8
LongVectors ==
    {[i \in 1..9 |-> IF i \in S THEN 1 ELSE -1] : S \in SUBSET {1, 8, 9}}

PairTensors ==
    {W(n, v) : n \in Names,
               v \in {InitWeights[1].values, InitWeights[2].values, <<1>>}}

\* the tensor sets: one tensor of 0..MaxShort, 8 or 9 elements under any
\* name, or two tensors under different names
TensorInputs ==
    {<<W(n, v)>> : n \in Names, v \in ShortVectors \cup LongVectors}
    \cup {<<W(<<119>>, v)>> : v \in SignVectors(8)}
    \cup {q \in UniqueSeqs(PairTensors, 2, [t \in PairTensors |-> t.name]) :
            Len(q) = 2}

DefaultTensors == <<InitWeights[1]>>

WriterInit ==
    /\ bit_state = 0
    /\ token_count = 0
    /\ responses = InitResponses
    /\ \/ metadata \in MetaInputs /\ weights = DefaultTensors
       \/ metadata = DefaultMeta /\ weights \in TensorInputs
       \/ metadata = InitMetadata /\ weights = InitWeights
    /\ turns = <<>>
    /\ ret = Call("__init__", <<>>, <<>>)
    /\ file = NoFile
    /\ dialog = "none"

WriterNext == ExportGguf

WriterSpec == WriterInit /\ [][WriterNext]_vars

----------------------------------------------------------------------------
(* A reader of the container, following the layout export_gguf writes      *)
(* (tag, version, tensor count, metadata count, metadata entries, tensors  *)
(* of one packed byte each); it states the writer's properties and is not  *)
(* part of the program                                                     *)

\* unsigned little-endian number in b[pos .. pos+width-1]
RECURSIVE DecodeLE(_, _, _)
DecodeLE(b, pos, width) ==
    IF width = 0 THEN 0 ELSE b[pos] + 256 * DecodeLE(b, pos + 1, width - 1)

\* signed 32-bit little-endian number in b[pos .. pos+3]
DecodeI32(b, pos) ==
    DecodeLE(b, pos, 3)
    + 16777216 * (IF b[pos + 3] >= 128 THEN b[pos + 3] - 256 ELSE b[pos + 3])

Continuation(x) == x >= 128 /\ x < 192

\* the code points of UTF-8 bytes b[i .. last]; ok is FALSE on malformed input
RECURSIVE DecodeUtf8(_, _, _)
DecodeUtf8(b, i, last) ==
    IF i > last THEN [ok |-> TRUE, text |-> <<>>]
    ELSE LET x == b[i]
             n == IF x < 128 THEN 1
                  ELSE IF x >= 192 /\ x < 224 THEN 2
                  ELSE IF x >= 224 /\ x < 240 THEN 3
                  ELSE IF x >= 240 /\ x < 248 THEN 4 ELSE 0
         IN IF n = 0 \/ i + n - 1 > last
               \/ \E j \in (i + 1)..(i + n - 1) : ~Continuation(b[j])
            THEN [ok |-> FALSE, text |-> <<>>]
            ELSE LET c == IF n = 1 THEN x
                          ELSE IF n = 2 THEN (x - 192) * 64 + (b[i + 1] - 128)
                          ELSE IF n = 3
                          THEN (x - 224) * 4096 + (b[i + 1] - 128) * 64
                               + (b[i + 2] - 128)
                          ELSE (x - 240) * 262144 + (b[i + 1] - 128) * 4096
                               + (b[i + 2] - 128) * 64 + (b[i + 3] - 128)
                     rest == DecodeUtf8(b, i + n, last)
                 IN [ok |-> rest.ok,
                     text |-> IF rest.ok THEN <<c>> \o rest.text ELSE <<>>]

Cursor(ok, pos, val) == [ok |-> ok, pos |-> pos, val |-> val]

\* a length-prefixed UTF-8 string at pos: 8-byte length, then the bytes
ReadString(b, pos) ==
    IF pos + 7 > Len(b) THEN Cursor(FALSE, pos, <<>>)
    ELSE LET n == DecodeLE(b, pos, 8)
         IN IF pos + 7 + n > Len(b) THEN Cursor(FALSE, pos, <<>>)
            ELSE LET d == DecodeUtf8(b, pos + 8, pos + 7 + n)
                 IN Cursor(d.ok, pos + 8 + n, d.text)

\* one metadata entry at pos: key, 4-byte type tag, value
ReadEntry(b, pos) ==
    LET k == ReadString(b, pos)
    IN IF ~k.ok \/ k.pos + 3 > Len(b) THEN Cursor(FALSE, pos, <<>>)
       ELSE LET tag == DecodeLE(b, k.pos, 4)
            IN IF tag = TYPE_INT32
               THEN IF k.pos + 7 > Len(b) THEN Cursor(FALSE, pos, <<>>)
                    ELSE Cursor(TRUE, k.pos + 8,
                                KV(k.val, IntValue(DecodeI32(b, k.pos + 4))))
               ELSE IF tag = TYPE_STRING
               THEN LET v == ReadString(b, k.pos + 4)
                    IN Cursor(v.ok, v.pos, KV(k.val, StrValue(v.val)))
               ELSE Cursor(FALSE, pos, <<>>)

\* one tensor at pos: name, then the packed byte, bit i for element i
ReadTensor(b, pos) ==
    LET k == ReadString(b, pos)
    IN IF ~k.ok \/ k.pos > Len(b) THEN Cursor(FALSE, pos, <<>>)
       ELSE Cursor(TRUE, k.pos + 1,
                   W(k.val, [i \in 1..TENSOR_LEN |->
                               IF (b[k.pos] \div Pow2(i - 1)) % 2 = 1
                               THEN 1 ELSE -1]))

\* n metadata entries from pos on
RECURSIVE ReadEntries(_, _, _)
ReadEntries(b, pos, n) ==
    IF n = 0 THEN Cursor(TRUE, pos, <<>>)
    ELSE LET x == ReadEntry(b, pos)
         IN IF ~x.ok THEN Cursor(FALSE, pos, <<>>)
            ELSE LET rest == ReadEntries(b, x.pos, n - 1)
                 IN Cursor(rest.ok, rest.pos,
                           IF rest.ok THEN <<x.val>> \o rest.val ELSE <<>>)

\* n tensors from pos on
RECURSIVE ReadTensors(_, _, _)
ReadTensors(b, pos, n) ==
    IF n = 0 THEN Cursor(TRUE, pos, <<>>)
    ELSE LET x == ReadTensor(b, pos)
         IN IF ~x.ok THEN Cursor(FALSE, pos, <<>>)
            ELSE LET rest == ReadTensors(b, x.pos, n - 1)
                 IN Cursor(rest.ok, rest.pos,
                           IF rest.ok THEN <<x.val>> \o rest.val ELSE <<>>)

Parsed(ok, version, nt, nm, md, ts) ==
    [ok |-> ok, version |-> version, tensor_count |-> nt,
     metadata_count |-> nm, metadata |-> md, tensors |-> ts]

Incomplete == Parsed(FALSE, 0, 0, 0, <<>>, <<>>)

\* the container in b; ok only if b is exactly one complete container
ParseModel(b) ==
    IF Len(b) < 24 \/ SubSeq(b, 1, 4) # MAGIC THEN Incomplete
    ELSE LET nt == DecodeLE(b, 9, 8)
             nm == DecodeLE(b, 17, 8)
             md == ReadEntries(b, 25, nm)
         IN IF ~md.ok THEN Incomplete
            ELSE LET ts == ReadTensors(b, md.pos, nt)
                 IN IF ts.ok /\ ts.pos = Len(b) + 1
                    THEN Parsed(TRUE, DecodeLE(b, 5, 4), nt, nm, md.val, ts.val)
                    ELSE Incomplete

----------------------------------------------------------------------------
(* Properties of the writer, under WriterSpec *)

ExportDone == ret.op = "export_gguf"
ExportSucceeded == ExportDone /\ ret.val.raised = ""

\* the last export ran with no I/O fault injected
NoFault == ExportDone /\ ret.arg = Len(WritePlan(metadata, weights).calls)

EmptyOrDuplicate ==
    \/ \E i \in 1..Len(weights) : weights[i].name = <<>>
    \/ \E i \in 1..Len(metadata) : metadata[i].key = <<>>
    \/ \E i, j \in 1..Len(weights) : i # j /\ weights[i].name = weights[j].name
    \/ \E i, j \in 1..Len(metadata) : i # j /\ metadata[i].key = metadata[j].key

\* what a round trip of the exported file gives back
RoundTrip ==
    LET p == ParseModel(file.bytes)
    IN /\ p.ok
       /\ p.metadata = metadata
       /\ p.tensors = weights
       /\ p.tensor_count = Len(weights)
       /\ p.metadata_count = Len(metadata)

Bit(n, k) == (n \div Pow2(k)) % 2

\* C7: packing sets bit i of the packed value iff element i is +1, for every
\* tensor; [1,-1,1,-1,1,-1,1,-1] packs to 85; the packed value fits in one
\* unsigned byte per 8 elements, and the one byte a successful export writes
\* for a tensor is that value.
C7_Packing ==
    /\ \A i \in 1..Len(weights) :
          LET v == weights[i].values
              p == PackBits(v)
          IN /\ \A k \in 0..(Len(v) - 1) : (Bit(p, k) = 1) <=> (v[k + 1] = 1)
             /\ p >= 0 /\ p < Pow2(8 * ((Len(v) + 7) \div 8))
             /\ (v = <<1, -1, 1, -1, 1, -1, 1, -1>>) => (p = 85)
    /\ (ExportSucceeded /\ weights # <<>>) =>
          LET v == weights[Len(weights)].values
              byte == file.bytes[Len(file.bytes)]
          IN /\ byte \in 0..255
             /\ \A k \in 0..(Len(v) - 1) : (Bit(byte, k) = 1) <=> (v[k + 1] = 1)

\* embed alone exported: the file ends with the byte 85
C7_Witness ==
    /\ ExportSucceeded
    /\ weights = <<W(EMBED, <<1, -1, 1, -1, 1, -1, 1, -1>>)>>
    /\ file.bytes[Len(file.bytes)] = 85

\* C8: an export given an empty tensor name (or an empty or duplicated key or
\* name) fails with a ValidationError before any byte is written: nothing is
\* at the destination.
C8_AsStated ==
    (NoFault /\ EmptyOrDuplicate) =>
        /\ ret.val.raised = "ValidationError"
        /\ file = NoFile

\* C9: when a write of the export fails after the file was opened (an I/O
\* error on any write call, or struct.pack failing after part was written),
\* the file is closed, what is left does not parse as a complete container,
\* and the failure reaches the caller, who reports an error, not a success.
C9_FailedWrite ==
    (ExportDone /\ ret.arg >= 0 /\ (~NoFault \/ ret.val.raised # "")) =>
        /\ ret.val.raised # ""
        /\ dialog = "showerror"
        /\ file.exists /\ ~file.open
        /\ ~ParseModel(file.bytes).ok

\* the engine's own export failing on its last write: all but the last
\* packed byte is on disk
C9_Witness ==
    /\ ExportDone /\ ret.val.raised = "OSError"
    /\ metadata = InitMetadata /\ weights = InitWeights
    /\ ret.arg = Len(WritePlan(metadata, weights).calls) - 1
    /\ Len(file.bytes) = 520

====
